---- MODULE Spec2Model ----
(***************************************************************************)
(* Configuration surface of the ST7305 RLCD display component              *)
(* (components/st7305_rlcd/display.py): the validation of a user           *)
(* configuration by CONFIG_SCHEMA and the code generation of to_code.      *)
(*                                                                         *)
(* Strings whose characters the validators inspect (model, orientation)   *)
(* are sequences of one-character strings; a configuration is a function  *)
(* whose DOMAIN is the set of keys present in the Python dict.             *)
(***************************************************************************)
EXTENDS Integers, Sequences, FiniteSets, TLC

VARIABLES raw, config, error, pc, emitted

vars == <<raw, config, error, pc, emitted>>

(* ------------------------------------------------------------------ keys *)
CONF_ID == "id"
CONF_DC_PIN == "dc_pin"
CONF_RESET_PIN == "reset_pin"
CONF_CS_PIN == "cs_pin"
CONF_MODEL == "model"
CONF_UPDATE_INTERVAL == "update_interval"
CONF_WIDTH == "width"
CONF_HEIGHT == "height"
CONF_ORIENTATION == "orientation"
CONF_LAMBDA == "lambda"

Keys ==
    {CONF_DC_PIN, CONF_RESET_PIN, CONF_CS_PIN, CONF_MODEL, CONF_UPDATE_INTERVAL,
     CONF_WIDTH, CONF_HEIGHT, CONF_ORIENTATION, CONF_LAMBDA}

(* --------------------------------------------------------------- strings *)
S_CUSTOM == <<"C", "U", "S", "T", "O", "M">>
S_WAVESHARE == <<"W", "A", "V", "E", "S", "H", "A", "R", "E", "_", "4", "0", "0", "X", "3", "0", "0">>
S_OSPTEK == <<"O", "S", "P", "T", "E", "K", "_", "2", "0", "0", "X", "2", "0", "0">>
S_LANDSCAPE == <<"L", "A", "N", "D", "S", "C", "A", "P", "E">>
S_PORTRAIT == <<"P", "O", "R", "T", "R", "A", "I", "T">>

LowerLetters ==
    <<"a", "b", "c", "d", "e", "f", "g", "h", "i", "j", "k", "l", "m",
      "n", "o", "p", "q", "r", "s", "t", "u", "v", "w", "x", "y", "z">>
UpperLetters ==
    <<"A", "B", "C", "D", "E", "F", "G", "H", "I", "J", "K", "L", "M",
      "N", "O", "P", "Q", "R", "S", "T", "U", "V", "W", "X", "Y", "Z">>

\* str.upper() on one character
UpperChar(c) ==
    IF \E i \in 1..Len(LowerLetters) : LowerLetters[i] = c
    THEN UpperLetters[CHOOSE i \in 1..Len(LowerLetters) : LowerLetters[i] = c]
    ELSE c

\* cv.Upper: str.upper()
Upper(s) == [i \in 1..Len(s) |-> UpperChar(s[i])]

\* str.replace(" ", space) for a one-character replacement
ReplaceSpace(s, space) == [i \in 1..Len(s) |-> IF s[i] = " " THEN space ELSE s[i]]

(* ------------------------------------------------------- the enumerations *)
\* MODELS: configuration name -> C++ enumerator
MODELS ==
    (S_WAVESHARE :> "ST7305_MODEL_WAVESHARE_400X300")
    @@ (S_OSPTEK :> "ST7305_MODEL_OSPTEK_200X200")
    @@ (S_CUSTOM :> "ST7305_MODEL_CUSTOM")

\* ORIENTATIONS: configuration name -> C++ enumerator
ORIENTATIONS ==
    (S_LANDSCAPE :> "ST7305_ORIENTATION_LANDSCAPE")
    @@ (S_PORTRAIT :> "ST7305_ORIENTATION_PORTRAIT")

MIN_DIM == 1
MAX_DIM == 800

(* ------------------------------------------------------------ validators *)
\* The outcome of a validator: a value, or cv.Invalid with its message.
Valid(v) == [ok |-> TRUE, value |-> v, msg |-> ""]
Invalid(m) == [ok |-> FALSE, value |-> <<>>, msg |-> m]

\* cv.enum(MODELS, upper=True, space="_"): spaces replaced, then upper-cased,
\* then looked up among the keys of the mapping.
ValidateModel(value) ==
    LET v == Upper(ReplaceSpace(value, "_"))
    IN  IF v \in DOMAIN MODELS THEN Valid(v) ELSE Invalid("Unknown value")

\* cv.enum(ORIENTATIONS, upper=True): no space replacement (space=" ").
ValidateOrientation(value) ==
    LET v == Upper(ReplaceSpace(value, " "))
    IN  IF v \in DOMAIN ORIENTATIONS THEN Valid(v) ELSE Invalid("Unknown value")

\* Mutant: the upper limit taken as exclusive.
ValidateDim_exclusive(value) ==
    IF value < MIN_DIM THEN Invalid("value must be at least 1")
    ELSE IF value >= MAX_DIM THEN Invalid("value must be at most 800")
    ELSE Valid(value)

\* cv.int_range(min=1, max=800)
ValidateDim(value) ==
    IF value < MIN_DIM THEN Invalid("value must be at least 1")
    ELSE IF value > MAX_DIM THEN Invalid("value must be at most 800")
    ELSE Valid(value)

\* A uint32 number of milliseconds, as its two 16-bit halves <<high, low>>.
Ms(n) == <<n \div 65536, n % 65536>>

\* The scheduler's "don't run" period, 4294967295 (uint32 max).
NEVER == <<65535, 65535>>

\* cv.positive_time_period_milliseconds, on the periods the inputs spell.
TimePeriodMs == ("60s" :> Ms(60000)) @@ ("1s" :> Ms(1000))

\* cv.update_interval: "never" is the scheduler's don't-run period, anything
\* else a positive time period in milliseconds.
ValidateUpdateInterval(value) ==
    IF value = "never" THEN Valid(NEVER)
    ELSE IF value \in DOMAIN TimePeriodMs THEN Valid(TimePeriodMs[value])
    ELSE Invalid("Expected time period")

\* The validator the schema attaches to each key.
ValidateKey(k, value) ==
    CASE k = CONF_MODEL -> ValidateModel(value)
      [] k = CONF_UPDATE_INTERVAL -> ValidateUpdateInterval(value)
      [] k = CONF_WIDTH -> ValidateDim(value)
      [] k = CONF_HEIGHT -> ValidateDim(value)
      [] k = CONF_ORIENTATION -> ValidateOrientation(value)
      [] OTHER -> Valid(value)

\* Mutant: reset_pin declared cv.Required.
RequiredKeys_reset == {CONF_DC_PIN, CONF_CS_PIN, CONF_RESET_PIN}

\* cv.Required keys: dc_pin, and cs_pin (spi_device_schema(cs_pin_required=True)).
RequiredKeys == {CONF_DC_PIN, CONF_CS_PIN}

\* Mutant: update_interval left at the display schema's own default of one second.
Defaults_display ==
    (CONF_MODEL :> S_WAVESHARE)
    @@ (CONF_UPDATE_INTERVAL :> "1s")
    @@ (CONF_ID :> "st7305_rlcd_id")

\* cv.Optional(..., default=...) keys and cv.GenerateID().
Defaults ==
    (CONF_MODEL :> S_WAVESHARE)
    @@ (CONF_UPDATE_INTERVAL :> "never")
    @@ (CONF_ID :> "st7305_rlcd_id")

\* The extended display schema: defaults are inserted for absent keys, every
\* key present is validated, a missing required key is an error.
DisplaySchema(cfg) ==
    LET present == DOMAIN cfg \cup DOMAIN Defaults
        filled == [k \in present |-> IF k \in DOMAIN cfg THEN cfg[k] ELSE Defaults[k]]
    IN  IF \E k \in RequiredKeys : k \notin DOMAIN cfg
        THEN Invalid("required key not provided")
        ELSE IF \E k \in present : ~ValidateKey(k, filled[k]).ok
        THEN Invalid(ValidateKey(CHOOSE k \in present : ~ValidateKey(k, filled[k]).ok,
                                 filled[CHOOSE k \in present : ~ValidateKey(k, filled[k]).ok]).msg)
        ELSE Valid([k \in present |-> ValidateKey(k, filled[k]).value])

\* config.get(CONF_MODEL) == "CUSTOM"
IsCustom(cfg) == CONF_MODEL \in DOMAIN cfg /\ cfg[CONF_MODEL] = S_CUSTOM

\* Mutant: "and" for "or" in the width/height test.
validate_custom_panel_and(cfg) ==
    IF IsCustom(cfg)
    THEN IF CONF_WIDTH \notin DOMAIN cfg /\ CONF_HEIGHT \notin DOMAIN cfg
         THEN Invalid("Custom model requires 'width' and 'height' to be specified")
         ELSE IF CONF_ORIENTATION \notin DOMAIN cfg
         THEN Invalid("Custom model requires 'orientation' (LANDSCAPE or PORTRAIT)")
         ELSE Valid(cfg)
    ELSE Valid(cfg)

\* Mutant: geometry given for a built-in model is refused too.
validate_custom_panel_strict(cfg) ==
    IF IsCustom(cfg)
    THEN IF CONF_WIDTH \notin DOMAIN cfg \/ CONF_HEIGHT \notin DOMAIN cfg
         THEN Invalid("Custom model requires 'width' and 'height' to be specified")
         ELSE IF CONF_ORIENTATION \notin DOMAIN cfg
         THEN Invalid("Custom model requires 'orientation' (LANDSCAPE or PORTRAIT)")
         ELSE Valid(cfg)
    ELSE IF \E k \in {CONF_WIDTH, CONF_HEIGHT, CONF_ORIENTATION} : k \in DOMAIN cfg
         THEN Invalid("width, height and orientation are for the custom model only")
         ELSE Valid(cfg)

\* Mutant: the errors are not raised, the configuration is returned as it is.
validate_custom_panel_noraise(cfg) == Valid(cfg)

validate_custom_panel(cfg) ==
    IF IsCustom(cfg)
    THEN IF CONF_WIDTH \notin DOMAIN cfg \/ CONF_HEIGHT \notin DOMAIN cfg
         THEN Invalid("Custom model requires 'width' and 'height' to be specified")
         ELSE IF CONF_ORIENTATION \notin DOMAIN cfg
         THEN Invalid("Custom model requires 'orientation' (LANDSCAPE or PORTRAIT)")
         ELSE Valid(cfg)
    ELSE Valid(cfg)

\* Mutant: cv.All(validate_custom_panel, schema), the check before the schema.
CONFIG_SCHEMA_checkFirst(cfg) ==
    LET r == validate_custom_panel(cfg)
    IN  IF r.ok THEN DisplaySchema(r.value) ELSE r

\* cv.All(schema, validate_custom_panel): the validators run in order, each on
\* the value the previous one returned; the first cv.Invalid ends the chain.
CONFIG_SCHEMA(cfg) ==
    LET r == DisplaySchema(cfg)
    IN  IF r.ok THEN validate_custom_panel(r.value) ELSE r

(* ---------------------------------------------------------------- inputs *)
\* How far around each limit of the dimension range the inputs reach.
Margin == 1

DimInputs ==
    {d \in (MIN_DIM - Margin)..(MIN_DIM + Margin) : TRUE}
    \cup {d \in (MAX_DIM - Margin)..(MAX_DIM + Margin) : TRUE}

ModelInputs ==
    {S_CUSTOM,
     <<"c", "u", "s", "t", "o", "m">>,
     <<"C", "u", "s", "t", "o", "m">>,
     <<"C", "U", "S", "T", "O", "M", "2">>,
     S_WAVESHARE,
     <<"w", "a", "v", "e", "s", "h", "a", "r", "e", " ", "4", "0", "0", "x", "3", "0", "0">>,
     <<"o", "s", "p", "t", "e", "k", "_", "2", "0", "0", "x", "2", "0", "0">>}

OrientationInputs ==
    {S_LANDSCAPE, <<"p", "o", "r", "t", "r", "a", "i", "t">>, <<"l", "a", "n", "d", " ", "s", "c", "a", "p", "e">>}

\* An optional field: <<>> when the key is absent, <<v>> when it is given.
Opt(S) == {<<>>} \cup {<<v>> : v \in S}

MkConfig(in) == [k \in {k \in DOMAIN in : in[k] # <<>>} |-> in[k][1]]

RawConfigs ==
    {MkConfig([dc_pin |-> dc, reset_pin |-> rst, cs_pin |-> cs, model |-> m,
               update_interval |-> ui, width |-> w, height |-> h,
               orientation |-> o, lambda |-> l]) :
        dc \in Opt({"GPIO4"}), rst \in Opt({"GPIO5"}), cs \in Opt({"GPIO15"}),
        m \in Opt(ModelInputs), ui \in Opt({"never", "60s"}),
        w \in Opt(DimInputs), h \in Opt(DimInputs),
        o \in Opt(OrientationInputs), l \in Opt({"it.fill(COLOR_ON);"})}

NoConfig == [k \in {} |-> 0]

(* ---------------------------------------------------------- the pipeline *)
\* One emitted operation of the code generator: its name and its argument.
Call(op, arg) == [op |-> op, arg |-> <<arg>>]
Call0(op) == [op |-> op, arg |-> <<>>]

Init ==
    /\ raw \in RawConfigs
    /\ config = NoConfig
    /\ error = ""
    /\ pc = "validate"
    /\ emitted = <<>>

\* The configuration is validated by CONFIG_SCHEMA; a cv.Invalid rejects the
\* setup, and to_code is only handed the configuration CONFIG_SCHEMA returned.
Validate ==
    /\ pc = "validate"
    /\ LET r == CONFIG_SCHEMA(raw)
       IN  IF r.ok
           THEN /\ config' = r.value
                /\ error' = ""
                /\ pc' = "new_Pvariable"
           ELSE /\ config' = NoConfig
                /\ error' = r.msg
                /\ pc' = "rejected"
    /\ UNCHANGED <<raw, emitted>>

(* ---------------------------------------------------------------- to_code *)
\* var = cg.new_Pvariable(config[CONF_ID])
VarCalls(cfg) == <<Call("new_Pvariable", cfg[CONF_ID])>>

\* await display.register_display(var, config)
DisplayCalls(cfg) == <<Call0("register_display")>>

\* await spi.register_spi_device(var, config)
SpiCalls(cfg) == <<Call0("register_spi_device")>>

\* cg.add(var.set_dc_pin(dc_pin))
DcPinCalls(cfg) == <<Call("set_dc_pin", cfg[CONF_DC_PIN])>>

\* if CONF_RESET_PIN in config: cg.add(var.set_reset_pin(reset_pin))
ResetPinCalls(cfg) ==
    IF CONF_RESET_PIN \in DOMAIN cfg
    THEN <<Call("set_reset_pin", cfg[CONF_RESET_PIN])>>
    ELSE <<>>

\* cg.add(var.set_model(config[CONF_MODEL]))
ModelCalls(cfg) == <<Call("set_model", MODELS[cfg[CONF_MODEL]])>>

\* Mutant: the geometry setters emitted whenever the geometry is configured.
CustomBranch_given(cfg) ==
    {CONF_WIDTH, CONF_HEIGHT, CONF_ORIENTATION} \subseteq DOMAIN cfg

\* if config[CONF_MODEL] == "CUSTOM"
CustomBranch(cfg) == cfg[CONF_MODEL] = S_CUSTOM

\* Mutant: the orientation set before the dimensions.
CustomSetters_orientationFirst(cfg) ==
    <<Call("set_orientation", ORIENTATIONS[cfg[CONF_ORIENTATION]]),
      Call("set_width", cfg[CONF_WIDTH]),
      Call("set_height", cfg[CONF_HEIGHT])>>

\* The three geometry setters of the custom branch, in source order.
CustomSetters(cfg) ==
    <<Call("set_width", cfg[CONF_WIDTH]),
      Call("set_height", cfg[CONF_HEIGHT]),
      Call("set_orientation", ORIENTATIONS[cfg[CONF_ORIENTATION]])>>

CustomCalls(cfg) == IF CustomBranch(cfg) THEN CustomSetters(cfg) ELSE <<>>

\* Mutant: set_writer emitted without a lambda too, with an empty one.
WriterCalls_always(cfg) ==
    <<Call("set_writer", IF CONF_LAMBDA \in DOMAIN cfg THEN cfg[CONF_LAMBDA] ELSE "")>>

\* if CONF_LAMBDA in config: cg.add(var.set_writer(lambda_))
WriterCalls(cfg) ==
    IF CONF_LAMBDA \in DOMAIN cfg
    THEN <<Call("set_writer", cfg[CONF_LAMBDA])>>
    ELSE <<>>

NewPvariable ==
    /\ pc = "new_Pvariable"
    /\ emitted' = emitted \o VarCalls(config)
    /\ pc' = "register_display"
    /\ UNCHANGED <<raw, config, error>>

RegisterDisplay ==
    /\ pc = "register_display"
    /\ emitted' = emitted \o DisplayCalls(config)
    /\ pc' = "register_spi_device"
    /\ UNCHANGED <<raw, config, error>>

RegisterSpiDevice ==
    /\ pc = "register_spi_device"
    /\ emitted' = emitted \o SpiCalls(config)
    /\ pc' = "set_dc_pin"
    /\ UNCHANGED <<raw, config, error>>

SetDcPin ==
    /\ pc = "set_dc_pin"
    /\ emitted' = emitted \o DcPinCalls(config)
    /\ pc' = "set_reset_pin"
    /\ UNCHANGED <<raw, config, error>>

SetResetPin ==
    /\ pc = "set_reset_pin"
    /\ emitted' = emitted \o ResetPinCalls(config)
    /\ pc' = "set_model"
    /\ UNCHANGED <<raw, config, error>>

SetModel ==
    /\ pc = "set_model"
    /\ emitted' = emitted \o ModelCalls(config)
    /\ pc' = "custom"
    /\ UNCHANGED <<raw, config, error>>

SetCustom ==
    /\ pc = "custom"
    /\ emitted' = emitted \o CustomCalls(config)
    /\ pc' = "lambda"
    /\ UNCHANGED <<raw, config, error>>

SetWriter ==
    /\ pc = "lambda"
    /\ emitted' = emitted \o WriterCalls(config)
    /\ pc' = "done"
    /\ UNCHANGED <<raw, config, error>>

\* The whole of to_code on one configuration, statement after statement.
ToCodeCalls(cfg) ==
    VarCalls(cfg) \o DisplayCalls(cfg) \o SpiCalls(cfg) \o DcPinCalls(cfg)
    \o ResetPinCalls(cfg) \o ModelCalls(cfg) \o CustomCalls(cfg) \o WriterCalls(cfg)

to_code ==
    \/ NewPvariable
    \/ RegisterDisplay
    \/ RegisterSpiDevice
    \/ SetDcPin
    \/ SetResetPin
    \/ SetModel
    \/ SetCustom
    \/ SetWriter

Next == Validate \/ to_code

Spec == Init /\ [][Next]_vars

(* ================================================================ claims *)
\* The vocabulary of the claims, stated on the user's configuration as written.
CustomSpellings ==
    {S_CUSTOM, <<"c", "u", "s", "t", "o", "m">>, <<"C", "u", "s", "t", "o", "m">>}

NonCustomSpellings ==
    {S_WAVESHARE,
     <<"w", "a", "v", "e", "s", "h", "a", "r", "e", " ", "4", "0", "0", "x", "3", "0", "0">>,
     <<"o", "s", "p", "t", "e", "k", "_", "2", "0", "0", "x", "2", "0", "0">>}

OrientationSpellings == {S_LANDSCAPE, <<"p", "o", "r", "t", "r", "a", "i", "t">>}

GeomKeys == {CONF_WIDTH, CONF_HEIGHT, CONF_ORIENTATION}
MissingGeom == GeomKeys \ DOMAIN raw
Given(k) == k \in DOMAIN raw

RawCustom == Given(CONF_MODEL) /\ raw[CONF_MODEL] \in CustomSpellings
RawNonCustom == Given(CONF_MODEL) /\ raw[CONF_MODEL] \in NonCustomSpellings

Checked == pc # "validate"
Rejected == pc = "rejected"
Accepted == pc \notin {"validate", "rejected"}
Done == pc = "done"

\* Every field that is given is well-formed by itself, and the required pins
\* are there; says nothing on which fields a model needs.
FieldsWellFormed ==
    /\ Given(CONF_DC_PIN) /\ Given(CONF_CS_PIN)
    /\ Given(CONF_MODEL) => raw[CONF_MODEL] \in CustomSpellings \cup NonCustomSpellings
    /\ Given(CONF_WIDTH) => raw[CONF_WIDTH] \in 1..800
    /\ Given(CONF_HEIGHT) => raw[CONF_HEIGHT] \in 1..800
    /\ Given(CONF_ORIENTATION) => raw[CONF_ORIENTATION] \in OrientationSpellings

Positions(op) == {i \in 1..Len(emitted) : emitted[i].op = op}
Count(op) == Cardinality(Positions(op))
ArgOf(op) == emitted[CHOOSE i \in Positions(op) : TRUE].arg[1]
Setters == {"set_dc_pin", "set_reset_pin", "set_model", "set_width", "set_height",
            "set_orientation", "set_writer"}

\* C1: a configuration whose model is CUSTOM is rejected with a configuration
\* error whenever width, height or orientation is missing (any of the 7
\* non-empty subsets), and when all three are there validate_custom_panel
\* hands the configuration on unchanged.
C1_CustomNeedsGeometry ==
    (Checked /\ RawCustom) =>
        /\ (MissingGeom # {}) => (Rejected /\ error # "" /\ config = NoConfig)
        /\ (MissingGeom = {} /\ Accepted) =>
              /\ validate_custom_panel(config) = Valid(config)
              /\ GeomKeys \subseteq DOMAIN config
              /\ config[CONF_WIDTH] = raw[CONF_WIDTH]
              /\ config[CONF_HEIGHT] = raw[CONF_HEIGHT]
        /\ (MissingGeom = {} /\ FieldsWellFormed) => Accepted

C1_Witness ==
    /\ RawCustom /\ FieldsWellFormed
    /\ MissingGeom = {CONF_ORIENTATION}
    /\ Rejected
    /\ error = "Custom model requires 'orientation' (LANDSCAPE or PORTRAIT)"

\* C2 as stated: any user-supplied width, height or orientation for a
\* non-custom model is a configuration error.
C2_NonCustomGeometryRejected ==
    (Checked /\ RawNonCustom /\ MissingGeom # GeomKeys) => Rejected

\* C2, amended: a width, height or orientation supplied for a non-custom model
\* is no configuration error by itself: such a configuration is rejected
\* exactly when a required pin is missing or a supplied value is invalid for
\* its own field, and otherwise accepted with the supplied values kept.
C2_NonCustomGeometryAccepted ==
    (Checked /\ RawNonCustom /\ MissingGeom # GeomKeys) =>
        /\ Rejected <=> ~FieldsWellFormed
        /\ Accepted => \A k \in GeomKeys : Given(k) <=> k \in DOMAIN config

C2_Witness ==
    /\ RawNonCustom /\ MissingGeom = {} /\ FieldsWellFormed
    /\ Done /\ error = ""

\* C3: to_code emits set_width, set_height and set_orientation exactly when
\* the model is CUSTOM, then once each with the configured values; for any
\* other model supplied geometry never reaches the driver and set_model alone
\* selects the profile.
C3_GeometryOnlyForCustom ==
    /\ Accepted =>
          \A op \in {"set_width", "set_height", "set_orientation"} :
              Count(op) > 0 => RawCustom
    /\ Done =>
          /\ Count("set_model") = 1
          /\ RawCustom =>
                /\ Count("set_width") = 1 /\ ArgOf("set_width") = raw[CONF_WIDTH]
                /\ Count("set_height") = 1 /\ ArgOf("set_height") = raw[CONF_HEIGHT]
                /\ Count("set_orientation") = 1
                /\ ArgOf("set_orientation") =
                      (IF raw[CONF_ORIENTATION] = S_LANDSCAPE
                       THEN "ST7305_ORIENTATION_LANDSCAPE"
                       ELSE "ST7305_ORIENTATION_PORTRAIT")
                /\ ArgOf("set_model") = "ST7305_MODEL_CUSTOM"
          /\ ~RawCustom =>
                /\ Count("set_width") = 0
                /\ Count("set_height") = 0
                /\ Count("set_orientation") = 0
                /\ ArgOf("set_model") \in
                      {"ST7305_MODEL_WAVESHARE_400X300", "ST7305_MODEL_OSPTEK_200X200"}

C3_Witness ==
    /\ Done /\ RawNonCustom /\ MissingGeom = {}
    /\ Count("set_width") = 0 /\ Count("set_model") = 1

\* C4: for model CUSTOM, width and height must each lie in 1..800: a
\* configuration complete in every other respect is accepted exactly when both
\* are in the range, the limits 1 and 800 included.
C4_DimensionRange ==
    (Checked /\ RawCustom /\ MissingGeom = {}
       /\ Given(CONF_DC_PIN) /\ Given(CONF_CS_PIN)
       /\ raw[CONF_ORIENTATION] \in OrientationSpellings) =>
        (Accepted <=> (raw[CONF_WIDTH] \in 1..800 /\ raw[CONF_HEIGHT] \in 1..800))

C4_Witness ==
    /\ RawCustom /\ MissingGeom = {}
    /\ raw[CONF_WIDTH] = 800 /\ raw[CONF_HEIGHT] = 1
    /\ Done

\* C5: a configuration error is detected before the driver is constructed:
\* nothing is emitted before validation or for a rejected configuration, and
\* whatever to_code emits, it emits for a configuration that is valid.
C5_NoCodeForRejected ==
    /\ pc \in {"validate", "rejected"} => emitted = <<>>
    /\ Rejected => config = NoConfig
    /\ emitted # <<>> =>
          /\ FieldsWellFormed
          /\ RawCustom => MissingGeom = {}

C5_Witness ==
    /\ Rejected /\ emitted = <<>>
    /\ RawCustom /\ MissingGeom = {} /\ Given(CONF_DC_PIN) /\ Given(CONF_CS_PIN)
    /\ raw[CONF_WIDTH] = 801

\* C6: dc_pin is required and reset_pin optional: without dc_pin the
\* configuration is rejected, a valid configuration without reset_pin is
\* accepted, and to_code emits set_dc_pin once for every accepted configuration
\* and set_reset_pin once exactly when reset_pin is configured.
C6_Pins ==
    /\ (Checked /\ ~Given(CONF_DC_PIN)) => Rejected
    /\ (Checked /\ ~Given(CONF_RESET_PIN) /\ FieldsWellFormed
          /\ (RawCustom => MissingGeom = {})) => Accepted
    /\ Done =>
          /\ Count("set_dc_pin") = 1 /\ ArgOf("set_dc_pin") = raw[CONF_DC_PIN]
          /\ Count("set_reset_pin") = (IF Given(CONF_RESET_PIN) THEN 1 ELSE 0)
          /\ Given(CONF_RESET_PIN) => ArgOf("set_reset_pin") = raw[CONF_RESET_PIN]

C6_Witness ==
    /\ Done /\ ~Given(CONF_RESET_PIN)
    /\ Count("set_dc_pin") = 1 /\ Count("set_reset_pin") = 0

\* C7: an omitted update_interval validates to "never" (the scheduler's
\* don't-run period, uint32 max), and an omitted model to WAVESHARE_400X300,
\* which needs no width, height or orientation.
C7_Defaults ==
    /\ (Accepted /\ ~Given(CONF_UPDATE_INTERVAL)) =>
          config[CONF_UPDATE_INTERVAL] = <<65535, 65535>>
    /\ (Accepted /\ ~Given(CONF_MODEL)) => config[CONF_MODEL] = S_WAVESHARE
    /\ (Checked /\ ~Given(CONF_MODEL) /\ FieldsWellFormed) => Accepted

C7_Witness ==
    /\ ~Given(CONF_UPDATE_INTERVAL) /\ ~Given(CONF_MODEL) /\ MissingGeom = GeomKeys
    /\ Done
    /\ config[CONF_UPDATE_INTERVAL] = <<65535, 65535>>

\* The configuration with its lambda taken out, and with one put in.
WithoutLambda(cfg) == [k \in DOMAIN cfg \ {CONF_LAMBDA} |-> cfg[k]]
WithLambda(cfg) == [k \in DOMAIN cfg \cup {CONF_LAMBDA} |->
                       IF k = CONF_LAMBDA THEN "it.fill(COLOR_OFF);" ELSE cfg[k]]
NotWriter(c) == c.op # "set_writer"

\* C8: to_code emits set_writer once if the configuration has a lambda and
\* never otherwise, and the other calls it emits are those it emits for the
\* same configuration with the lambda taken out, or with one put in.
C8_WriterOptional ==
    Done =>
        /\ Count("set_writer") = (IF Given(CONF_LAMBDA) THEN 1 ELSE 0)
        /\ Given(CONF_LAMBDA) => ArgOf("set_writer") = raw[CONF_LAMBDA]
        /\ SelectSeq(emitted, NotWriter) = ToCodeCalls(WithoutLambda(config))
        /\ SelectSeq(emitted, NotWriter) =
              SelectSeq(ToCodeCalls(WithLambda(config)), NotWriter)

C8_Witness ==
    /\ Done /\ Given(CONF_LAMBDA) /\ RawCustom
    /\ Count("set_writer") = 1 /\ Count("set_width") = 1

\* The place of each operation in the order of C9.
Rank ==
    [op \in {"new_Pvariable", "register_display", "register_spi_device"} \cup Setters |->
        CASE op = "new_Pvariable" -> 1
          [] op = "register_display" -> 2
          [] op = "register_spi_device" -> 3
          [] op = "set_dc_pin" -> 4
          [] op = "set_reset_pin" -> 5
          [] op = "set_model" -> 6
          [] op = "set_width" -> 7
          [] op = "set_height" -> 8
          [] op = "set_orientation" -> 9
          [] op = "set_writer" -> 10]

\* C9: at every point of to_code the operations emitted so far are in the
\* order create, register_display, register_spi_device, set_dc_pin,
\* [set_reset_pin], set_model, [set_width, set_height, set_orientation],
\* [set_writer]; every setter comes after both registrations.
C9_EmissionOrder ==
    /\ \A i \in 1..Len(emitted) : emitted[i].op \in DOMAIN Rank
    /\ \A i, j \in 1..Len(emitted) :
          i < j => Rank[emitted[i].op] < Rank[emitted[j].op]
    /\ \A i \in 1..Len(emitted) :
          emitted[i].op \in Setters => (i > 3 /\ emitted[2].op = "register_display"
                                        /\ emitted[3].op = "register_spi_device")
    /\ Len(emitted) >= 1 => emitted[1].op = "new_Pvariable"
    /\ Done => (Count("set_dc_pin") = 1 /\ Count("set_model") = 1)
    /\ (Done /\ Count("set_writer") = 1) => emitted[Len(emitted)].op = "set_writer"

C9_Witness ==
    /\ Done /\ Len(emitted) = 10
    /\ emitted[5].op = "set_reset_pin" /\ emitted[6].op = "set_model"
    /\ emitted[7].op = "set_width" /\ emitted[10].op = "set_writer"

\* C10: the custom-panel check sees the normalised model: every spelling of
\* the custom model the schema accepts validates to CUSTOM, a validated model
\* is always one of the three names of MODELS, an accepted CUSTOM
\* configuration has width, height and orientation, and to_code's test for
\* CUSTOM agrees with validate_custom_panel's.
C10_NormalisedModel ==
    Accepted =>
        /\ config[CONF_MODEL] \in {S_WAVESHARE, S_OSPTEK, S_CUSTOM}
        /\ RawCustom <=> config[CONF_MODEL] = S_CUSTOM
        /\ config[CONF_MODEL] = S_CUSTOM => GeomKeys \subseteq DOMAIN config
        /\ CustomBranch(config) <=> IsCustom(config)
        /\ CustomBranch(config) <=> RawCustom

C10_Witness ==
    /\ Given(CONF_MODEL) /\ raw[CONF_MODEL] = <<"c", "u", "s", "t", "o", "m">>
    /\ Done /\ config[CONF_MODEL] = S_CUSTOM /\ Count("set_width") = 1

====
